---- MODULE Spec2Model ----
(***************************************************************************)
(* Model of the binding API database of ritual (RustDatabase in            *)
(* ritual/src/rust_info.rs) and of the resolvability checker of            *)
(* cpp_to_rust_generator (rust_name_resolver.rs).                          *)
(*                                                                         *)
(* Strings are sequences of one-character strings, so that formatting a    *)
(* number into a name and looking at the last character of a name are      *)
(* computed, not assumed.  A RustPath is the sequence of its parts.        *)
(* Option<T> and Result<T> are sequences of length 0 (None / Err) or       *)
(* 1 (Some(x) / Ok(x)).                                                    *)
(***************************************************************************)
EXTENDS Integers, Sequences, FiniteSets, TLC

VARIABLES
    \* the database
    crate_name, items, batch, all_ok, call, result, ret, prev_ret,
    \* the resolvability checker
    all_items, cpp_type, check_result, cpp_item, item_result, old_result,
    \* the batch pass
    initial_items, run_pos, run_status, log, logged, checked, handed_off,
    \* has_same_source
    item_a, item_b, item_c, same_aa, same_ab, same_ba, same_bc, same_ac

db_vars == <<crate_name, items, batch, all_ok, call, result, ret, prev_ret>>

check_vars == <<cpp_type, check_result>>

item_vars == <<cpp_item, item_result, old_result>>

run_vars ==
    <<initial_items, run_pos, run_status, log, logged, checked, handed_off>>

source_vars ==
    <<item_a, item_b, item_c, same_aa, same_ab, same_ba, same_bc, same_ac>>

resolver_vars == <<all_items, check_vars, item_vars, run_vars, source_vars>>

vars == <<db_vars, resolver_vars>>

(***************************************************************************)
(* Bounds.                                                                 *)
(***************************************************************************)
\* number of add_item calls between two clear calls
MaxBatch == 3
\* number of template arguments of a class, of arguments of a function pointer
MaxArgs == 2
\* number of items of the registry
MaxRegistry == 2
\* number of items of the database the batch pass runs on
MaxPending == 3
\* largest cpp_item_index and ffi_item_index of an item
MaxIndex == 1

(***************************************************************************)
(* Option / Result.                                                        *)
(***************************************************************************)
None == <<>>
Some(x) == <<x>>
IsSome(o) == Len(o) = 1
IsNone(o) == Len(o) = 0
Unwrap(o) == o[1]

(***************************************************************************)
(* Strings.                                                                *)
(***************************************************************************)
DigitChars == <<"0", "1", "2", "3", "4", "5", "6", "7", "8", "9">>

IsDigitChar(c) == \E i \in 1..Len(DigitChars) : DigitChars[i] = c

\* format!("{}", number) for a non-negative integer
RECURSIVE NumberToString(_)
NumberToString(n) ==
    IF n < 10 THEN <<DigitChars[n + 1]>>
    ELSE NumberToString(n \div 10) \o <<DigitChars[(n % 10) + 1]>>

\* ritual_common::string_utils::ends_with_digit
ends_with_digit(s) == Len(s) > 0 /\ IsDigitChar(s[Len(s)])

pkg == <<"p", "k", "g">>
other == <<"o", "t", "h">>
sub == <<"s", "u", "b">>
child == <<"c", "h", "i", "l", "d">>
foo == <<"f", "o", "o">>
foo1 == <<"f", "o", "o", "1">>
foo2 == <<"f", "o", "o", "2">>
foo1_2 == <<"f", "o", "o", "1", "_", "2">>

(***************************************************************************)
(* RustPath (crate::rust_type::RustPath): parts, parent, crate_name, last. *)
(***************************************************************************)
\* RustPath::parent: the path without its last part; Err for a one-part path
PathParent(path) ==
    IF Len(path) > 1 THEN Some(SubSeq(path, 1, Len(path) - 1)) ELSE None

\* RustPath::crate_name: the first part
PathCrateName(path) == IF Len(path) > 0 THEN Some(path[1]) ELSE None

\* RustPath::last
PathLast(path) == path[Len(path)]

\* *path.last_mut() = name
PathWithLast(path, name) == SubSeq(path, 1, Len(path) - 1) \o <<name>>

\* path.parts.pop()
PathPop(path) == SubSeq(path, 1, Len(path) - 1)

(***************************************************************************)
(* RustItem / RustDatabaseItem.  An item is a record                       *)
(*   variant     : the RustItem variant                                    *)
(*   kind        : for a Module, its RustModuleKind ("CrateRoot", "Ffi",   *)
(*                 "CppNamespace"); "-" otherwise                          *)
(*   path        : the path field of the variants that have one            *)
(*   parent_path : the parent_path field of TraitImpl and ExtraImpl        *)
(***************************************************************************)
Variants ==
    {"Module", "Struct", "EnumValue", "TraitImpl", "ExtraImpl",
     "FfiFunction", "Function", "Reexport"}

PathLessVariants == {"TraitImpl", "ExtraImpl"}

Item(v, k, p) ==
    [variant |-> v, kind |-> k,
     path |-> IF v \in PathLessVariants THEN <<>> ELSE p,
     parent_path |-> IF v \in PathLessVariants THEN p ELSE <<>>]

\* RustItem::is_crate_root
is_crate_root(item) == item.variant = "Module" /\ item.kind = "CrateRoot"

\* RustDatabaseItem::path
path(item) ==
    IF item.variant \in PathLessVariants THEN None ELSE Some(item.path)

\* RustDatabaseItem::parent_path
parent_path(item) ==
    IF item.variant \in PathLessVariants THEN Some(item.parent_path)
    ELSE PathParent(Unwrap(path(item)))

\* RustDatabaseItem::is_child_of
is_child_of(item, parent) == parent_path(item) = Some(parent)

(***************************************************************************)
(* RustDatabase queries.                                                   *)
(***************************************************************************)
\* positions of the stored items that have the path
FindPositions(its, p) == {i \in 1..Len(its) : path(its[i]) = Some(p)}

Min(S) == CHOOSE x \in S : \A y \in S : x <= y

\* find with the test of children: the first stored item that is a child
\* of the path
find_by_child(its, p) ==
    IF {i \in 1..Len(its) : is_child_of(its[i], p)} = {} THEN None
    ELSE Some(its[Min({i \in 1..Len(its) : is_child_of(its[i], p)})])

\* find that returns the last stored item with the path
find_last(its, p) ==
    IF FindPositions(its, p) = {} THEN None
    ELSE Some(its[CHOOSE i \in FindPositions(its, p) :
                    \A j \in FindPositions(its, p) : j <= i])

\* RustDatabase::find: the first stored item with the path
find(its, p) ==
    IF FindPositions(its, p) = {} THEN None
    ELSE Some(its[Min(FindPositions(its, p))])

\* RustDatabase::children: the stored items that are children of the path,
\* in the order of the store
RECURSIVE children(_, _)
children(its, p) ==
    IF its = <<>> THEN <<>>
    ELSE (IF is_child_of(Head(its), p) THEN <<Head(its)>> ELSE <<>>)
         \o children(Tail(its), p)

(***************************************************************************)
(* RustDatabase::add_item.                                                 *)
(***************************************************************************)
\* The loop of add_item: from the parent path upwards, every path of more
\* than one part must be found.  TRUE when the loop ends without bailing.
RECURSIVE AncestorsReachable(_, _)
AncestorsReachable(its, p) ==
    IF Len(p) > 1
    THEN IF IsNone(find(its, p)) THEN FALSE
         ELSE AncestorsReachable(its, PathPop(p))
    ELSE TRUE

\* add_item without the crate name check of the parent path
add_item_result_no_crate_check(its, cn, item) ==
    IF is_crate_root(item)
    THEN IF Unwrap(PathCrateName(Unwrap(path(item)))) # cn
         THEN "ErrCrateName" ELSE "Ok"
    ELSE IF IsNone(parent_path(item)) THEN "ErrNoParent"
         ELSE IF ~AncestorsReachable(its, Unwrap(parent_path(item)))
              THEN "ErrUnreachable"
              ELSE "Ok"

\* The outcome of add_item(item) on a database: "Ok" or the error it bails with
add_item_result(its, cn, item) ==
    IF is_crate_root(item)
    THEN IF Unwrap(PathCrateName(Unwrap(path(item)))) # cn
         THEN "ErrCrateName" ELSE "Ok"
    ELSE IF IsNone(parent_path(item)) THEN "ErrNoParent"
         ELSE IF Unwrap(PathCrateName(Unwrap(parent_path(item)))) # cn
              THEN "ErrCrateName"
              ELSE IF ~AncestorsReachable(its, Unwrap(parent_path(item)))
                   THEN "ErrUnreachable"
                   ELSE "Ok"

\* add_item that pushes the item before it validates it
add_item_store_push_first(its, cn, item) == Append(its, item)

\* The store after add_item(item): the item is pushed only on Ok
add_item_store(its, cn, item) ==
    IF add_item_result(its, cn, item) = "Ok" THEN Append(its, item) ELSE its

(***************************************************************************)
(* RustDatabase::make_unique_path.                                         *)
(***************************************************************************)
\* the name with the separator whatever the last part ends with
SuffixedName_always_separator(last, number) ==
    last \o <<"_">> \o NumberToString(number)

\* The name tried for a number: the last part of the given path, "_" if
\* that part ends with a digit, and the number
SuffixedName(last, number) ==
    last \o (IF ends_with_digit(last) THEN <<"_">> ELSE <<>>)
         \o NumberToString(number)

\* number = Some(number.map_or(1, |n| n + 1))
NextNumber_from_one(number) ==
    Some(IF IsSome(number) THEN Unwrap(number) + 1 ELSE 1)

\* number = Some(number.unwrap_or(1) + 1)
NextNumber(number) ==
    Some((IF IsSome(number) THEN Unwrap(number) ELSE 1) + 1)

\* path_try at the top of an iteration
PathTry(p, number) ==
    IF IsSome(number)
    THEN PathWithLast(p, SuffixedName(PathLast(p), Unwrap(number)))
    ELSE p

\* One iteration of the loop, and the iterations after it
RECURSIVE make_unique_path_loop(_, _, _)
make_unique_path_loop(its, p, number) ==
    IF IsNone(find(its, PathTry(p, number))) THEN PathTry(p, number)
    ELSE make_unique_path_loop(its, p, NextNumber(number))

make_unique_path_value(its, p) == make_unique_path_loop(its, p, None)

(***************************************************************************)
(* CppType (crate::cpp_type) and the items of the registry                 *)
(* (crate::database::DatabaseItem), as check_type reads them.              *)
(***************************************************************************)
Void == [tag |-> "Void"]
Class(name, template_arguments) ==
    [tag |-> "Class", name |-> name,
     template_arguments |-> template_arguments]
Enum(name) == [tag |-> "Enum", name |-> name]
PointerLike(target) == [tag |-> "PointerLike", target |-> target]
FunctionPointer(return_type, arguments) ==
    [tag |-> "FunctionPointer", return_type |-> return_type,
     arguments |-> arguments]

\* CppItemData::Type(CppTypeData { name, kind })
TypeData(name, kind) == [tag |-> "Type", name |-> name, kind |-> kind]

\* CppItemData::Function(CppFunction { name, return_type, arguments, .. })
FunctionData(name, return_type, arguments) ==
    [tag |-> "Function", name |-> name, return_type |-> return_type,
     arguments |-> arguments]

DatabaseItem(cpp_data, rust_item) ==
    [cpp_data |-> cpp_data, rust_item |-> rust_item]

\* CppItemData::as_type_ref
as_type_ref(cpp_data) ==
    IF cpp_data.tag = "Type" THEN Some(cpp_data) ELSE None

\* CppTypeDataKind::is_class, is_enum
is_class(kind) == kind = "Class"
is_enum(kind) == kind = "Enum"

\* Result<()>
Ok == [ok |-> TRUE, err |-> <<>>]
Err(msg) == [ok |-> FALSE, err |-> msg]

\* format!("class not found: {}", name), format!("enum not found: {}", name)
ClassNotFound(name) == <<"class not found: ">> \o name
EnumNotFound(name) == <<"enum not found: ">> \o name

\* all instead of any
AnyClass_all(its, name) ==
    \A i \in 1..Len(its) :
        /\ IsSome(as_type_ref(its[i].cpp_data))
        /\ Unwrap(as_type_ref(its[i].cpp_data)).name = name
        /\ is_class(Unwrap(as_type_ref(its[i].cpp_data)).kind)

\* any over the Type items, without the test of the kind
AnyClass_any_kind(its, name) ==
    \E i \in 1..Len(its) :
        /\ IsSome(as_type_ref(its[i].cpp_data))
        /\ Unwrap(as_type_ref(its[i].cpp_data)).name = name

\* all_items.iter().filter_map(as_type_ref).any(|t| &t.name == name && t.kind.is_class())
AnyClass(its, name) ==
    \E i \in 1..Len(its) :
        /\ IsSome(as_type_ref(its[i].cpp_data))
        /\ Unwrap(as_type_ref(its[i].cpp_data)).name = name
        /\ is_class(Unwrap(as_type_ref(its[i].cpp_data)).kind)

AnyEnum(its, name) ==
    \E i \in 1..Len(its) :
        /\ IsSome(as_type_ref(its[i].cpp_data))
        /\ Unwrap(as_type_ref(its[i].cpp_data)).name = name
        /\ is_enum(Unwrap(as_type_ref(its[i].cpp_data)).kind)

RECURSIVE check_type(_, _)
RECURSIVE check_types(_, _)

\* for t in types { check_type(all_items, t)?; }
check_types(its, types) ==
    IF types = <<>> THEN Ok
    ELSE IF ~check_type(its, Head(types)).ok
         THEN check_type(its, Head(types))
         ELSE check_types(its, Tail(types))

\* check_type
check_type(its, t) ==
    CASE t.tag = "Class" ->
            IF ~AnyClass(its, t.name) THEN Err(ClassNotFound(t.name))
            ELSE IF IsSome(t.template_arguments)
                 THEN check_types(its, Unwrap(t.template_arguments))
                 ELSE Ok
      [] t.tag = "Enum" ->
            IF ~AnyEnum(its, t.name) THEN Err(EnumNotFound(t.name)) ELSE Ok
      [] t.tag = "PointerLike" -> check_type(its, t.target)
      [] t.tag = "FunctionPointer" ->
            IF ~check_type(its, t.return_type).ok
            THEN check_type(its, t.return_type)
            ELSE check_types(its, t.arguments)
      [] OTHER -> Ok

(***************************************************************************)
(* is_cpp_item_resolvable.  Its result is recorded with the number of      *)
(* types check_type was called for.                                        *)
(***************************************************************************)
\* CppItemData::all_involved_types: the own type of a Type item; the return
\* type and then the type of each argument of a Function item
all_involved_types(cpp_data) ==
    IF cpp_data.tag = "Type"
    THEN IF is_class(cpp_data.kind) THEN <<Class(cpp_data.name, None)>>
         ELSE <<Enum(cpp_data.name)>>
    ELSE <<cpp_data.return_type>> \o cpp_data.arguments

ItemResult(res, consulted) ==
    [ok |-> res.ok, err |-> res.err, consulted |-> consulted]

\* the loop without the `?`: every type is checked and the last error is
\* the result
RECURSIVE resolvable_loop_no_return(_, _, _, _)
resolvable_loop_no_return(its, types, k, res) ==
    IF k > Len(types) THEN ItemResult(res, Len(types))
    ELSE resolvable_loop_no_return(
            its, types, k + 1,
            IF check_type(its, types[k]).ok THEN res
            ELSE check_type(its, types[k]))

\* for cpp_type in &item.all_involved_types() { check_type(..)?; } Ok(())
\* from the k-th type on
RECURSIVE resolvable_loop(_, _, _)
resolvable_loop(its, types, k) ==
    IF k > Len(types) THEN ItemResult(Ok, Len(types))
    ELSE IF ~check_type(its, types[k]).ok
         THEN ItemResult(check_type(its, types[k]), k)
         ELSE resolvable_loop(its, types, k + 1)

is_cpp_item_resolvable_no_return(its, cpp_data) ==
    resolvable_loop_no_return(its, all_involved_types(cpp_data), 1, Ok)

\* is_cpp_item_resolvable
is_cpp_item_resolvable(its, cpp_data) ==
    resolvable_loop(its, all_involved_types(cpp_data), 1)

(***************************************************************************)
(* run: the pieces of the loop body.                                       *)
(***************************************************************************)
\* the test that is never true
has_rust_item_never(item) == FALSE

\* if item.rust_item.is_some() { continue; }
has_rust_item(item) == IsSome(item.rust_item)

\* format!("skipping item: {}: {}", &item.cpp_data, err); the item data
\* stands for its own Display text
SkippingItem(cpp_data, err) == <<"skipping item: ", cpp_data, ": ">> \o err

(***************************************************************************)
(* has_same_source.  An item is its variant, its provenance (prov) and the *)
(* fields the comparison never reads (path, is_public, doc).  prov is the  *)
(* kind of a Module, Struct, ExtraImpl or Function, the source of a        *)
(* TraitImpl or Reexport, and the index field of an EnumValue or           *)
(* FfiFunction.                                                            *)
(***************************************************************************)
\* RustModuleKind
Special(k) == [tag |-> "Special", special |-> k]
CppNamespace(i) == [tag |-> "CppNamespace", cpp_item_index |-> i]
CppNestedTypes(i) == [tag |-> "CppNestedTypes", cpp_item_index |-> i]

\* RustStructKind
WrapperType(i) == [tag |-> "WrapperType", cpp_item_index |-> i]
QtSlotWrapper(i) == [tag |-> "QtSlotWrapper", cpp_item_index |-> i]
SizedType(i) == [tag |-> "SizedType", cpp_item_index |-> i]

\* RustExtraImplKind
FlagEnum(i) == [tag |-> "FlagEnum", cpp_item_index |-> i]
RawSlotReceiver(i) == [tag |-> "RawSlotReceiver", cpp_item_index |-> i]

\* RustFunctionKind
FfiWrapper(i) == [tag |-> "FfiWrapper", ffi_item_index |-> i]
SignalOrSlotGetter(i) == [tag |-> "SignalOrSlotGetter", cpp_item_index |-> i]

RustTraitImplSource(i, k) == [ffi_item_index |-> i, kind |-> k]
DependencyCrate(n) == [tag |-> "DependencyCrate", crate_name |-> n]
RustEnumValue(i) == [cpp_item_index |-> i]
RustFFIFunction(i) == [ffi_item_index |-> i]

RustItem(v, prov, rest) ==
    [variant |-> v, prov |-> prov, path |-> rest.path,
     is_public |-> rest.is_public, doc |-> rest.doc]

\* #[derive(PartialEq)] of RustModuleKind
RustModuleKind_eq(kind, that) ==
    /\ kind.tag = that.tag
    /\ IF kind.tag = "Special" THEN kind.special = that.special
       ELSE kind.cpp_item_index = that.cpp_item_index

\* #[derive(PartialEq)] of RustTraitImplSource
RustTraitImplSource_eq(source, that) ==
    /\ source.ffi_item_index = that.ffi_item_index
    /\ source.kind = that.kind

\* #[derive(PartialEq)] of RustReexportSource
RustReexportSource_eq(source, that) ==
    /\ source.tag = that.tag
    /\ source.crate_name = that.crate_name

\* the comparison that forgets the sub-variant
RustStructKind_has_same_source_index_only(kind, that) ==
    kind.cpp_item_index = that.cpp_item_index

RustStructKind_has_same_source(kind, that) ==
    CASE kind.tag = "WrapperType" ->
            IF that.tag = "WrapperType"
            THEN kind.cpp_item_index = that.cpp_item_index ELSE FALSE
      [] kind.tag = "QtSlotWrapper" ->
            IF that.tag = "QtSlotWrapper"
            THEN kind.cpp_item_index = that.cpp_item_index ELSE FALSE
      [] kind.tag = "SizedType" ->
            IF that.tag = "SizedType"
            THEN kind.cpp_item_index = that.cpp_item_index ELSE FALSE

RustExtraImplKind_has_same_source(kind, that) ==
    CASE kind.tag = "FlagEnum" ->
            IF that.tag = "FlagEnum"
            THEN kind.cpp_item_index = that.cpp_item_index ELSE FALSE
      [] kind.tag = "RawSlotReceiver" ->
            IF that.tag = "RawSlotReceiver"
            THEN kind.cpp_item_index = that.cpp_item_index ELSE FALSE

\* the TraitImpl arm without the test of the source kind
has_same_source_TraitImpl_any_kind(data, that) ==
    CASE that.variant = "TraitImpl" ->
            RustTraitImplSource_eq(data.prov, that.prov)
      [] that.variant = "Function" ->
            IF that.prov.tag = "FfiWrapper"
            THEN data.prov.ffi_item_index = that.prov.ffi_item_index
            ELSE FALSE
      [] OTHER -> FALSE

\* the arm RustItem::TraitImpl(data) => match other
has_same_source_TraitImpl(data, that) ==
    CASE that.variant = "TraitImpl" ->
            RustTraitImplSource_eq(data.prov, that.prov)
      [] that.variant = "Function" ->
            IF that.prov.tag = "FfiWrapper"
            THEN /\ data.prov.ffi_item_index = that.prov.ffi_item_index
                 /\ data.prov.kind = "Normal"
            ELSE FALSE
      [] OTHER -> FALSE

\* the Function arm without the test of the source kind of the TraitImpl
has_same_source_Function_any_kind(data, that) ==
    CASE data.prov.tag = "FfiWrapper" ->
            (CASE that.variant = "TraitImpl" ->
                    data.prov.ffi_item_index = that.prov.ffi_item_index
               [] that.variant = "Function" ->
                    IF that.prov.tag = "FfiWrapper"
                    THEN data.prov.ffi_item_index = that.prov.ffi_item_index
                    ELSE FALSE
               [] OTHER -> FALSE)
      [] data.prov.tag = "SignalOrSlotGetter" ->
            IF that.variant = "Function"
            THEN IF that.prov.tag = "SignalOrSlotGetter"
                 THEN data.prov.cpp_item_index = that.prov.cpp_item_index
                 ELSE FALSE
            ELSE FALSE

\* the arm RustItem::Function(data) => match &data.kind
has_same_source_Function(data, that) ==
    CASE data.prov.tag = "FfiWrapper" ->
            (CASE that.variant = "TraitImpl" ->
                    /\ data.prov.ffi_item_index = that.prov.ffi_item_index
                    /\ that.prov.kind = "Normal"
               [] that.variant = "Function" ->
                    IF that.prov.tag = "FfiWrapper"
                    THEN data.prov.ffi_item_index = that.prov.ffi_item_index
                    ELSE FALSE
               [] OTHER -> FALSE)
      [] data.prov.tag = "SignalOrSlotGetter" ->
            IF that.variant = "Function"
            THEN IF that.prov.tag = "SignalOrSlotGetter"
                 THEN data.prov.cpp_item_index = that.prov.cpp_item_index
                 ELSE FALSE
            ELSE FALSE

has_same_source(self, that) ==
    CASE self.variant = "Module" ->
            IF that.variant = "Module"
            THEN RustModuleKind_eq(self.prov, that.prov) ELSE FALSE
      [] self.variant = "Struct" ->
            IF that.variant = "Struct"
            THEN RustStructKind_has_same_source(self.prov, that.prov)
            ELSE FALSE
      [] self.variant = "EnumValue" ->
            IF that.variant = "EnumValue"
            THEN self.prov.cpp_item_index = that.prov.cpp_item_index
            ELSE FALSE
      [] self.variant = "TraitImpl" -> has_same_source_TraitImpl(self, that)
      [] self.variant = "ExtraImpl" ->
            IF that.variant = "ExtraImpl"
            THEN RustExtraImplKind_has_same_source(self.prov, that.prov)
            ELSE FALSE
      [] self.variant = "FfiFunction" ->
            IF that.variant = "FfiFunction"
            THEN self.prov.ffi_item_index = that.prov.ffi_item_index
            ELSE FALSE
      [] self.variant = "Function" -> has_same_source_Function(self, that)
      [] self.variant = "Reexport" ->
            IF that.variant = "Reexport"
            THEN RustReexportSource_eq(self.prov, that.prov) ELSE FALSE

(***************************************************************************)
(* The inputs of the model.                                                *)
(***************************************************************************)
CrateNames == {pkg, other}

ItemUniverse ==
    {Item("Module", "CrateRoot", <<pkg>>),
     Item("Module", "CrateRoot", <<other>>),
     Item("Module", "CppNamespace", <<pkg, sub>>),
     Item("Struct", "-", <<pkg, sub>>),
     Item("Function", "-", <<pkg, sub, child>>),
     Item("TraitImpl", "-", <<pkg, sub>>),
     Item("ExtraImpl", "-", <<other, sub>>),
     Item("Struct", "-", <<pkg, foo>>),
     Item("EnumValue", "-", <<pkg, foo1>>),
     Item("FfiFunction", "-", <<pkg, foo2>>),
     Item("Reexport", "-", <<pkg, foo1_2>>),
     Item("Struct", "-", <<pkg>>)}

CandidatePaths ==
    {<<pkg, foo>>, <<pkg, foo1>>, <<pkg, sub>>, <<pkg, sub, child>>}

C1 == <<"C", "1">>
E1 == <<"E", "1">>

\* sequences over S of length at most n
RECURSIVE SeqsUpTo(_, _)
SeqsUpTo(S, n) ==
    IF n = 0 THEN {<<>>}
    ELSE SeqsUpTo(S, n - 1)
         \cup {Append(q, x) : q \in {r \in SeqsUpTo(S, n - 1) : Len(r) = n - 1},
                              x \in S}

LeafTypes == {Void, Class(C1, None), Enum(E1)}

\* one constructor over the leaves
FlatTypes ==
    LeafTypes
    \cup {PointerLike(t) : t \in LeafTypes}
    \cup {Class(C1, Some(a)) : a \in SeqsUpTo(LeafTypes, MaxArgs)}
    \cup {FunctionPointer(r, a) : r \in LeafTypes,
                                  a \in SeqsUpTo(LeafTypes, MaxArgs)}

\* one more constructor over those
TypeUniverse ==
    FlatTypes
    \cup {PointerLike(t) : t \in FlatTypes}
    \cup {Class(C1, Some(<<t>>)) : t \in FlatTypes}
    \cup {FunctionPointer(t, <<u>>) : t \in FlatTypes, u \in LeafTypes}

RegistryItems ==
    {DatabaseItem(TypeData(C1, "Class"), None),
     DatabaseItem(TypeData(C1, "Enum"), None),
     DatabaseItem(TypeData(E1, "Enum"), None),
     DatabaseItem(TypeData(E1, "Class"), None),
     DatabaseItem(FunctionData(C1, Void, <<>>), None)}

Registries == SeqsUpTo(RegistryItems, MaxRegistry)

FooOfC1 == FunctionData(foo, Void, <<Class(C1, None)>>)

\* the items of the database the batch pass runs on, with and without a
\* generated binding
RunItems ==
    {DatabaseItem(d, b) :
        d \in {FunctionData(foo, Void, <<>>), FooOfC1,
               FunctionData(foo, Enum(E1), <<Class(C1, None)>>),
               TypeData(C1, "Class")},
        b \in {None, Some("bound")}}

\* the items has_same_source is called on
Indices == 0..MaxIndex

SpecialModuleKinds == {"CrateRoot", "Ffi", "Ops", "SizedTypes"}
TraitImplSourceKinds == {"Normal", "Deref", "DerefMut"}

Provenances ==
    {<<"Module", Special(k)>> : k \in SpecialModuleKinds}
    \cup UNION {{<<"Module", CppNamespace(i)>>,
                 <<"Module", CppNestedTypes(i)>>,
                 <<"Struct", WrapperType(i)>>,
                 <<"Struct", QtSlotWrapper(i)>>,
                 <<"Struct", SizedType(i)>>,
                 <<"EnumValue", RustEnumValue(i)>>,
                 <<"ExtraImpl", FlagEnum(i)>>,
                 <<"ExtraImpl", RawSlotReceiver(i)>>,
                 <<"FfiFunction", RustFFIFunction(i)>>,
                 <<"Function", FfiWrapper(i)>>,
                 <<"Function", SignalOrSlotGetter(i)>>} : i \in Indices}
    \cup {<<"TraitImpl", RustTraitImplSource(i, k)>> :
            i \in Indices, k \in TraitImplSourceKinds}
    \cup {<<"Reexport", DependencyCrate(n)>> : n \in CrateNames}

\* the fields of an item that are no provenance
Presentations ==
    [path : {<<pkg, foo>>, <<pkg, sub>>}, is_public : BOOLEAN,
     doc : {None, Some("doc")}]

Plain == [path |-> <<pkg, foo>>, is_public |-> TRUE, doc |-> None]

SourceItems ==
    {RustItem(q[1], q[2], rest) : q \in Provenances, rest \in Presentations}

PlainItems == {RustItem(q[1], q[2], Plain) : q \in Provenances}

\* the types of the arguments and return types of the items
SignatureTypes == LeafTypes \cup {PointerLike(Enum(E1))}

CppItems ==
    {FunctionData(foo, r, a) : r \in LeafTypes,
                               a \in SeqsUpTo(SignatureTypes, MaxArgs)}
    \cup {TypeData(C1, "Class"), TypeData(E1, "Enum")}

Pending == [ok |-> FALSE, err |-> <<"pending">>]

Call(op, item, p, pre, cn) ==
    [op |-> op, item |-> item, path |-> p, pre |-> pre, pre_crate |-> cn]

(***************************************************************************)
(* The state machine.  items and crate_name are the fields of the          *)
(* database.  The other variables record the history the properties speak  *)
(* of: batch, the arguments of the add_item calls since the database was   *)
(* last empty by construction or clear; all_ok, whether all of them         *)
(* returned Ok; call, the last call with its argument and the fields of    *)
(* the database before it; result, what add_item returned; ret, what       *)
(* make_unique_path returned; prev_ret, what the call before returned when *)
(* it was make_unique_path of the same path.                               *)
(***************************************************************************)
\* the checker before any registry is looked at
CheckIdle ==
    /\ cpp_type = Void
    /\ check_result = Pending

ItemIdle ==
    /\ cpp_item = FunctionData(foo, Void, <<>>)
    /\ item_result = Pending
    /\ old_result = Pending

RunIdle ==
    /\ initial_items = <<>>
    /\ run_pos = 1
    /\ run_status = "idle"
    /\ log = <<>>
    /\ logged = <<>>
    /\ checked = <<>>
    /\ handed_off = <<>>

SourceIdle ==
    /\ item_a = <<>>
    /\ item_b = <<>>
    /\ item_c = <<>>
    /\ same_aa = <<>>
    /\ same_ab = <<>>
    /\ same_ba = <<>>
    /\ same_bc = <<>>
    /\ same_ac = <<>>

ResolverIdle ==
    /\ all_items = <<>>
    /\ CheckIdle
    /\ ItemIdle
    /\ RunIdle
    /\ SourceIdle

\* RustDatabase::new(crate_name)
Init ==
    /\ ResolverIdle
    /\ crate_name \in CrateNames
    /\ items = <<>>
    /\ batch = <<>>
    /\ all_ok = TRUE
    /\ call = Call("new", None, None, <<>>, crate_name)
    /\ result = "Ok"
    /\ ret = None
    /\ prev_ret = None

add_item(item) ==
    /\ Len(batch) < MaxBatch
    /\ items' = add_item_store(items, crate_name, item)
    /\ result' = add_item_result(items, crate_name, item)
    /\ call' = Call("add_item", Some(item), None, items, crate_name)
    /\ batch' = Append(batch, item)
    /\ all_ok' = (all_ok /\ add_item_result(items, crate_name, item) = "Ok")
    /\ ret' = None
    /\ prev_ret' = None
    /\ UNCHANGED <<crate_name, resolver_vars>>

clear ==
    /\ items' = <<>>
    /\ call' = Call("clear", None, None, items, crate_name)
    /\ batch' = <<>>
    /\ all_ok' = TRUE
    /\ result' = "Ok"
    /\ ret' = None
    /\ prev_ret' = None
    /\ UNCHANGED <<crate_name, resolver_vars>>

\* make_unique_path that reserves the path it returns in the store
make_unique_path_reserving(p) ==
    /\ ret' = Some(make_unique_path_value(items, p))
    /\ items' = Append(items,
                       Item("Struct", "-", make_unique_path_value(items, p)))
    /\ call' = Call("make_unique_path", None, Some(p), items, crate_name)
    /\ prev_ret' = IF call.op = "make_unique_path" /\ call.path = Some(p)
                   THEN ret ELSE None
    /\ result' = "Ok"
    /\ UNCHANGED <<crate_name, batch, all_ok, resolver_vars>>

make_unique_path(p) ==
    /\ ret' = Some(make_unique_path_value(items, p))
    /\ call' = Call("make_unique_path", None, Some(p), items, crate_name)
    /\ prev_ret' = IF call.op = "make_unique_path" /\ call.path = Some(p)
                   THEN ret ELSE None
    /\ result' = "Ok"
    /\ UNCHANGED <<crate_name, items, batch, all_ok, resolver_vars>>

AddItem == \E item \in ItemUniverse : add_item(item)

MakeUniquePath == \E p \in CandidatePaths : make_unique_path(p)

Next == AddItem \/ clear \/ MakeUniquePath

Spec == Init /\ [][Next]_vars

(***************************************************************************)
(* The checker: check_type applied to a type under a registry.             *)
(***************************************************************************)
DbIdle ==
    /\ crate_name = pkg
    /\ items = <<>>
    /\ batch = <<>>
    /\ all_ok = TRUE
    /\ call = Call("new", None, None, <<>>, pkg)
    /\ result = "Ok"
    /\ ret = None
    /\ prev_ret = None

ResolverInit ==
    /\ DbIdle
    /\ SourceIdle
    /\ ItemIdle
    /\ RunIdle
    /\ all_items \in Registries
    /\ cpp_type \in TypeUniverse
    /\ check_result = Pending

CheckType ==
    /\ check_result = Pending
    /\ check_result' = check_type(all_items, cpp_type)
    /\ UNCHANGED <<all_items, cpp_type, item_vars, run_vars, db_vars,
                   source_vars>>

ResolverNext == CheckType

ResolverSpec == ResolverInit /\ [][ResolverNext]_vars

(***************************************************************************)
(* The checker of items: is_cpp_item_resolvable applied to an item under a *)
(* registry, then once more after one more item was added to the registry  *)
(* (as it_should_check_functions does with its second all_items).          *)
(* old_result is the result under the registry without its last item.      *)
(***************************************************************************)
ItemInit ==
    /\ DbIdle
    /\ SourceIdle
    /\ CheckIdle
    /\ RunIdle
    /\ all_items \in Registries
    /\ cpp_item \in CppItems
    /\ item_result = Pending
    /\ old_result = Pending

IsResolvable ==
    /\ item_result = Pending
    /\ item_result' = is_cpp_item_resolvable(all_items, cpp_item)
    /\ UNCHANGED <<all_items, cpp_item, old_result, check_vars, run_vars,
                   db_vars,
                   source_vars>>

AddToRegistry ==
    /\ item_result # Pending
    /\ old_result = Pending
    /\ \E e \in RegistryItems : all_items' = Append(all_items, e)
    /\ old_result' = item_result
    /\ item_result' = Pending
    /\ UNCHANGED <<cpp_item, check_vars, run_vars, db_vars,
                   source_vars>>

ItemNext == IsResolvable \/ AddToRegistry

ItemSpec == ItemInit /\ [][ItemNext]_vars

(***************************************************************************)
(* The batch pass: run over the items of the current database, which are   *)
(* the registry (data.all_items() with no dependency).  One step is one    *)
(* iteration of the loop.  run_status is "running" inside the loop, "Ok"   *)
(* after run returned Ok(()), "panic" after unimplemented!().  logged,     *)
(* checked and handed_off are the positions of the items a line was logged *)
(* for, is_cpp_item_resolvable was called for, and the Ok arm was entered  *)
(* for; initial_items is the registry at the call.                         *)
(***************************************************************************)
RunInit ==
    /\ DbIdle
    /\ SourceIdle
    /\ CheckIdle
    /\ ItemIdle
    /\ all_items \in SeqsUpTo(RunItems, MaxPending)
    /\ initial_items = all_items
    /\ run_pos = 1
    /\ run_status = "running"
    /\ log = <<>>
    /\ logged = <<>>
    /\ checked = <<>>
    /\ handed_off = <<>>

RunStep ==
    /\ run_status = "running"
    /\ run_pos <= Len(all_items)
    /\ IF has_rust_item(all_items[run_pos])
       THEN /\ run_pos' = run_pos + 1
            /\ UNCHANGED <<run_status, log, logged, checked, handed_off>>
       ELSE /\ checked' = Append(checked, run_pos)
            /\ IF is_cpp_item_resolvable(all_items,
                                         all_items[run_pos].cpp_data).ok
               THEN /\ handed_off' = Append(handed_off, run_pos)
                    /\ run_status' = "panic"
                    /\ UNCHANGED <<run_pos, log, logged>>
               ELSE /\ log' = Append(log,
                        SkippingItem(
                            all_items[run_pos].cpp_data,
                            is_cpp_item_resolvable(
                                all_items, all_items[run_pos].cpp_data).err))
                    /\ logged' = Append(logged, run_pos)
                    /\ run_pos' = run_pos + 1
                    /\ UNCHANGED <<run_status, handed_off>>
    /\ UNCHANGED <<all_items, initial_items, check_vars, item_vars, db_vars,
                   source_vars>>

RunReturn ==
    /\ run_status = "running"
    /\ run_pos > Len(all_items)
    /\ run_status' = "Ok"
    /\ UNCHANGED <<all_items, initial_items, run_pos, log, logged, checked,
                   handed_off, check_vars, item_vars, db_vars,
                   source_vars>>

RunNext == RunStep \/ RunReturn

RunSpec == RunInit /\ [][RunNext]_vars

(***************************************************************************)
(* has_same_source on two items, on each with itself and in both orders,   *)
(* and then on a third item.                                               *)
(***************************************************************************)
SourceInit ==
    /\ DbIdle
    /\ all_items = <<>>
    /\ CheckIdle
    /\ ItemIdle
    /\ RunIdle
    /\ \E a \in SourceItems : item_a = Some(a)
    /\ \E b \in PlainItems : item_b = Some(b)
    /\ item_c = <<>>
    /\ same_aa = <<>>
    /\ same_ab = <<>>
    /\ same_ba = <<>>
    /\ same_bc = <<>>
    /\ same_ac = <<>>

HasSameSource ==
    /\ same_ab = <<>>
    /\ same_aa' = Some(has_same_source(Unwrap(item_a), Unwrap(item_a)))
    /\ same_ab' = Some(has_same_source(Unwrap(item_a), Unwrap(item_b)))
    /\ same_ba' = Some(has_same_source(Unwrap(item_b), Unwrap(item_a)))
    /\ UNCHANGED <<item_a, item_b, item_c, same_bc, same_ac, all_items,
                   check_vars, item_vars, run_vars, db_vars>>

HasSameSourceThird ==
    /\ same_ab # <<>>
    /\ item_c = <<>>
    /\ \E c \in PlainItems :
        /\ item_c' = Some(c)
        /\ same_bc' = Some(has_same_source(Unwrap(item_b), c))
        /\ same_ac' = Some(has_same_source(Unwrap(item_a), c))
    /\ UNCHANGED <<item_a, item_b, same_aa, same_ab, same_ba, all_items,
                   check_vars, item_vars, run_vars, db_vars>>

SourceNext == HasSameSource \/ HasSameSourceThird

SourceSpec == SourceInit /\ [][SourceNext]_vars

(***************************************************************************)
(* Properties of the database.                                             *)
(***************************************************************************)
IsAddItem == call.op = "add_item"
IsMakeUniquePath == call.op = "make_unique_path"
CallItem == Unwrap(call.item)
CallPath == Unwrap(call.path)
Prefix(p, k) == SubSeq(p, 1, k)

\* C1: reachability: for every stored item with a parent path P, P and every
\* proper prefix of P, down to the one-part path of the crate root, is the
\* path of a stored item.
C1_Reachability ==
    \A i \in 1..Len(items) :
        IsSome(parent_path(items[i])) =>
            \A k \in 1..Len(Unwrap(parent_path(items[i]))) :
                IsSome(find(items, Prefix(Unwrap(parent_path(items[i])), k)))

\* C2: path uniqueness: no two stored items that have a path have the same
\* path.
C2_PathUnique ==
    \A i, j \in 1..Len(items) :
        (i # j /\ IsSome(path(items[i]))) => path(items[i]) # path(items[j])

\* The first part of the path of a stored item, or of its explicit parent
\* path for TraitImpl and ExtraImpl
PackageSegment(item) ==
    IF item.variant \in PathLessVariants THEN item.parent_path[1]
    ELSE item.path[1]

\* C3: package scoping: the first part of every stored item's path (of its
\* parent path for TraitImpl/ExtraImpl) is the crate name of the database,
\* and add_item fails with the different-crate-name error for a crate root
\* whose path has another first part and for any other item whose parent
\* path has another first part; the database keeps its crate name.
C3_PackageScoping ==
    /\ crate_name = call.pre_crate
    /\ \A i \in 1..Len(items) : PackageSegment(items[i]) = crate_name
    /\ (IsAddItem /\ is_crate_root(CallItem)
            /\ CallItem.path[1] # call.pre_crate)
        => result = "ErrCrateName"
    /\ (IsAddItem /\ ~is_crate_root(CallItem)
            /\ IsSome(parent_path(CallItem))
            /\ Unwrap(parent_path(CallItem))[1] # call.pre_crate)
        => result = "ErrCrateName"

\* an item of another crate was rejected by a database that holds items
C3_Witness ==
    /\ IsAddItem
    /\ ~is_crate_root(CallItem)
    /\ PackageSegment(CallItem) # crate_name
    /\ result = "ErrCrateName"
    /\ Len(items) > 0

\* C4: add_item is all-or-nothing: after an error the stored items and the
\* crate name are those before the call; after Ok the store is the store
\* before the call with the item appended at the end.
C4_AllOrNothing ==
    IsAddItem =>
        /\ result \in {"Ok", "ErrCrateName", "ErrNoParent", "ErrUnreachable"}
        /\ crate_name = call.pre_crate
        /\ result # "Ok" => items = call.pre
        /\ result = "Ok" => items = Append(call.pre, CallItem)

\* a call failed on a non-empty store after an earlier call had succeeded
C4_Witness ==
    /\ IsAddItem
    /\ result = "ErrUnreachable"
    /\ Len(call.pre) > 0
    /\ items = call.pre

\* C5: for every item that is not the crate root marker: if no stored item
\* has the item's parent path, add_item rejects it with an unreachable-path
\* error (the parent path being one of the database's crate).
C5_RejectsWhenParentAbsent ==
    (IsAddItem /\ ~is_crate_root(CallItem)
        /\ IsSome(parent_path(CallItem))
        /\ Unwrap(parent_path(CallItem))[1] = call.pre_crate
        /\ IsNone(find(call.pre, Unwrap(parent_path(CallItem)))))
    => result = "ErrUnreachable"

\* The batch is in dependency order for the crate: it begins with the crate
\* root module of the crate, and the parent path of every later item is the
\* path of an earlier item.
DependencyOrdered(b, cn) ==
    /\ Len(b) > 0
    /\ is_crate_root(b[1])
    /\ b[1].path = <<cn>>
    /\ \A i \in 2..Len(b) :
        /\ IsSome(parent_path(b[i]))
        /\ \E j \in 1..(i - 1) : path(b[j]) = parent_path(b[i])

\* C6: replaying a batch in dependency order never fails: every add_item of
\* the batch returned Ok and the store holds the items in that order.
C6_ReplayInOrder ==
    DependencyOrdered(batch, crate_name) => (all_ok /\ items = batch)

\* a full batch in dependency order with an item two levels below the root
C6_Witness ==
    /\ DependencyOrdered(batch, crate_name)
    /\ Len(batch) = MaxBatch
    /\ \E i \in 1..Len(batch) :
        /\ IsSome(parent_path(batch[i]))
        /\ Len(Unwrap(parent_path(batch[i]))) = 2
    /\ \E i \in 1..Len(batch) : batch[i].variant \in PathLessVariants

\* the path tried with a number as suffix
Suffixed(p, n) == PathWithLast(p, SuffixedName(PathLast(p), n))

Taken(its, p) == \E i \in 1..Len(its) : path(its[i]) = Some(p)

\* the first number from start on whose suffixed path is not taken; one of
\* any Len(its) + 1 distinct paths is not taken
FirstFree(its, p, start) ==
    Min({n \in start..(start + Len(its)) : ~Taken(its, Suffixed(p, n))})

C8_PureIdempotent ==
    IsMakeUniquePath =>
        /\ items = call.pre
        /\ crate_name = call.pre_crate
        /\ IsSome(prev_ret) => ret = prev_ret

\* a repeated call that had to add a suffix
C8_Witness ==
    /\ IsMakeUniquePath
    /\ IsSome(prev_ret)
    /\ ret = prev_ret
    /\ Unwrap(ret) # CallPath

\* C9: when make_unique_path adds a numeric suffix, the parts other than
\* the last are unchanged, and the last part is the candidate's last part,
\* then "_" if and only if that part ends with a digit, then the digits of
\* one number (the suffix is built from the candidate's last part, never
\* from an earlier try).
C9_Separator ==
    (IsMakeUniquePath /\ ret # call.path) =>
        /\ Len(Unwrap(ret)) = Len(CallPath)
        /\ PathPop(Unwrap(ret)) = PathPop(CallPath)
        /\ \E n \in 1..(Len(call.pre) + 2) :
            PathLast(Unwrap(ret)) =
                PathLast(CallPath)
                \o (IF IsDigitChar(PathLast(CallPath)[Len(PathLast(CallPath))])
                    THEN <<"_">> ELSE <<>>)
                \o NumberToString(n)
        /\ LET tail == SubSeq(PathLast(Unwrap(ret)),
                              Len(PathLast(CallPath)) + 1,
                              Len(PathLast(Unwrap(ret))))
           IN  (tail[1] = "_") <=> ends_with_digit(PathLast(CallPath))

\* "foo1" and "foo1_2" are taken and "foo1_3" is returned
C9_Witness ==
    /\ IsMakeUniquePath
    /\ CallPath = <<pkg, foo1>>
    /\ Taken(items, <<pkg, foo1>>)
    /\ Taken(items, <<pkg, foo1_2>>)
    /\ ret = Some(<<pkg, <<"f", "o", "o", "1", "_", "3">>>>)

(***************************************************************************)
(* Properties of the checker.                                              *)
(***************************************************************************)
RECURSIVE Leaves(_)
RECURSIVE LeavesOfAll(_)

LeavesOfAll(types) ==
    IF types = <<>> THEN <<>>
    ELSE Leaves(Head(types)) \o LeavesOfAll(Tail(types))

\* the Class and Enum leaves of a type in pre-order: a class before its
\* template arguments, a function pointer's return type before its arguments
Leaves(t) ==
    CASE t.tag = "Class" ->
            <<[kind |-> "Class", name |-> t.name]>>
            \o (IF t.template_arguments = <<>> THEN <<>>
                ELSE LeavesOfAll(t.template_arguments[1]))
      [] t.tag = "Enum" -> <<[kind |-> "Enum", name |-> t.name]>>
      [] t.tag = "PointerLike" -> Leaves(t.target)
      [] t.tag = "FunctionPointer" ->
            Leaves(t.return_type) \o LeavesOfAll(t.arguments)
      [] OTHER -> <<>>

\* the registry holds a Type item of the leaf's name and kind
Met(reg, leaf) ==
    \E i \in 1..Len(reg) :
        /\ reg[i].cpp_data.tag = "Type"
        /\ reg[i].cpp_data.name = leaf.name
        /\ reg[i].cpp_data.kind = leaf.kind

Unmet(reg, t) == {i \in 1..Len(Leaves(t)) : ~Met(reg, Leaves(t)[i])}

Diagnostic(leaf) ==
    <<IF leaf.kind = "Class" THEN "class not found: "
      ELSE "enum not found: ">> \o leaf.name

Checked == check_result # Pending

\* C10: check_type succeeds if and only if every Class leaf of the type
\* names a registry Type item of Class kind and every Enum leaf one of Enum
\* kind; when it fails, the diagnostic is "class not found: <name>" or
\* "enum not found: <name>" for the first unmet leaf in pre-order.
C10_CheckType ==
    Checked =>
        /\ check_result.ok <=> Unmet(all_items, cpp_type) = {}
        /\ Unmet(all_items, cpp_type) # {} =>
            check_result.err =
                Diagnostic(Leaves(cpp_type)[Min(Unmet(all_items, cpp_type))])

\* the check failed at a leaf that is not the first of the type, and whose
\* name the registry holds with the other kind
C10_Witness ==
    /\ Checked
    /\ ~check_result.ok
    /\ Min(Unmet(all_items, cpp_type)) > 1
    /\ Cardinality(Unmet(all_items, cpp_type)) > 1
    /\ \E i \in 1..Len(all_items) :
        /\ all_items[i].cpp_data.tag = "Type"
        /\ all_items[i].cpp_data.name =
            Leaves(cpp_type)[Min(Unmet(all_items, cpp_type))].name

(***************************************************************************)
(* Properties of clear and of the queries.                                 *)
(***************************************************************************)
\* the paths the queries are asked for: every path and parent path of an
\* item of the universe, every candidate, and every prefix of those
QueryPaths ==
    LET full == {i.path : i \in {x \in ItemUniverse : x.path # <<>>}}
                \cup {i.parent_path :
                        i \in {x \in ItemUniverse : x.parent_path # <<>>}}
                \cup CandidatePaths
    IN  UNION {{Prefix(p, k) : k \in 1..Len(p)} : p \in full}

\* every ancestor of the item, down to the crate root, is the path of an
\* item of the store
AncestorsPresent(its, item) ==
    /\ IsSome(parent_path(item))
    /\ \A k \in 1..Len(Unwrap(parent_path(item))) :
        Taken(its, Prefix(Unwrap(parent_path(item)), k))

\* C17: clear empties the store and keeps the crate name: after clear the
\* store is empty, find returns None and children yields nothing for every
\* path; add_item then validates as on a fresh database, so an item whose
\* ancestors were present before clear is rejected as unreachable.
C17_ClearThenValidate ==
    /\ [](call.op = "clear" =>
            /\ items = <<>>
            /\ crate_name = call.pre_crate
            /\ \A p \in QueryPaths :
                IsNone(find(items, p)) /\ children(items, p) = <<>>)
    /\ [][(call.op = "clear" /\ call'.op = "add_item"
            /\ ~is_crate_root(Unwrap(call'.item))
            /\ AncestorsPresent(call.pre, Unwrap(call'.item)))
          => result' = "ErrUnreachable"]_vars

\* the parent path the store derives for an item, read from its fields
DerivedParent(item) ==
    IF item.variant \in {"TraitImpl", "ExtraImpl"} THEN <<item.parent_path>>
    ELSE IF Len(item.path) > 1
         THEN <<SubSeq(item.path, 1, Len(item.path) - 1)>>
         ELSE <<>>

HasPath(item, p) ==
    item.variant \notin {"TraitImpl", "ExtraImpl"} /\ item.path = p

\* C18: the queries agree with the store: find(path) is Some exactly when a
\* stored item has that path, it is the earliest stored such item and never
\* a TraitImpl or ExtraImpl; children(path) is, in the order of the store,
\* the stored items whose derived parent path is the path; no item is its
\* own child, and the crate root module is a child of no path.
C18_QueriesAgree ==
    \A p \in QueryPaths :
        /\ IsSome(find(items, p)) <=>
            \E i \in 1..Len(items) : HasPath(items[i], p)
        /\ IsSome(find(items, p)) =>
            \E i \in 1..Len(items) :
                /\ find(items, p) = <<items[i]>>
                /\ HasPath(items[i], p)
                /\ \A j \in 1..(i - 1) : ~HasPath(items[j], p)
                /\ items[i].variant \notin {"TraitImpl", "ExtraImpl"}
        /\ children(items, p)
            = SelectSeq(items, LAMBDA it : DerivedParent(it) = <<p>>)
        /\ \A i \in 1..Len(children(items, p)) :
            /\ ~HasPath(children(items, p)[i], p)
            /\ ~(is_crate_root(children(items, p)[i])
                 /\ Len(children(items, p)[i].path) = 1)

\* two different items are stored with one path, which also has a Struct
\* and a TraitImpl among its children
C18_Witness ==
    /\ Len(items) = 3
    /\ \E i, j \in 1..Len(items) :
        /\ i < j
        /\ items[i] # items[j]
        /\ items[i].variant \notin PathLessVariants
        /\ items[i].path = items[j].path
        /\ items[i].path # <<>>
        /\ find(items, items[i].path) = <<items[i]>>
    /\ \E p \in QueryPaths : Len(children(items, p)) = 2

(***************************************************************************)
(* Properties of is_cpp_item_resolvable.                                   *)
(***************************************************************************)
ItemChecked == item_result # Pending
Rechecked == item_result # Pending /\ old_result # Pending
OldRegistry == SubSeq(all_items, 1, Len(all_items) - 1)
Added == all_items[Len(all_items)]

\* the Class and Enum leaves of the types an item involves
ItemLeaves(cpp_data) == LeavesOfAll(all_involved_types(cpp_data))

\* the entry is a Type item of the name and kind of a leaf of the item that
\* the registry does not meet
Supplies(e, reg, cpp_data) ==
    /\ e.cpp_data.tag = "Type"
    /\ \E i \in 1..Len(ItemLeaves(cpp_data)) :
        /\ ~Met(reg, ItemLeaves(cpp_data)[i])
        /\ ItemLeaves(cpp_data)[i].name = e.cpp_data.name
        /\ ItemLeaves(cpp_data)[i].kind = e.cpp_data.kind

\* C11: the function foo(a: C1) fails with "class not found: C1" while the
\* registry holds no Class-kind Type item C1 and succeeds once it holds
\* one; an item without class and enum types succeeds under every registry;
\* adding an entry that supplies no missing type changes neither the outcome
\* nor the diagnostic, and adding any entry never turns success into failure.
C11_RegistryGrowth ==
    /\ (ItemChecked /\ cpp_item = FooOfC1) =>
        /\ item_result.ok <=> Met(all_items, [kind |-> "Class", name |-> C1])
        /\ ~item_result.ok =>
            item_result.err = <<"class not found: ", "C", "1">>
    /\ (ItemChecked /\ ItemLeaves(cpp_item) = <<>>) => item_result.ok
    /\ (Rechecked /\ old_result.ok) => item_result.ok
    /\ (Rechecked /\ ~Supplies(Added, OldRegistry, cpp_item)) =>
        /\ item_result.ok = old_result.ok
        /\ item_result.err = old_result.err

\* foo(a: C1) failed under a registry without the class C1 and succeeds
\* after the Class-kind Type item C1 was added behind other entries
C11_Witness ==
    /\ Rechecked
    /\ cpp_item = FooOfC1
    /\ ~old_result.ok
    /\ item_result.ok
    /\ Len(OldRegistry) > 0
    /\ Added = DatabaseItem(TypeData(C1, "Class"), None)

\* the positions of the involved types check_type fails for
FailingTypes ==
    {k \in 1..Len(all_involved_types(cpp_item)) :
        ~check_type(all_items, all_involved_types(cpp_item)[k]).ok}

\* C12: is_cpp_item_resolvable succeeds if and only if check_type succeeds
\* on every involved type; when it fails, its error is the error of
\* check_type for the first failing type of the list, and the types after
\* that one are not consulted.
C12_FirstFailure ==
    ItemChecked =>
        /\ item_result.ok <=> FailingTypes = {}
        /\ FailingTypes = {} =>
            item_result.consulted = Len(all_involved_types(cpp_item))
        /\ FailingTypes # {} =>
            /\ item_result.err =
                check_type(all_items,
                           all_involved_types(cpp_item)[Min(FailingTypes)]).err
            /\ item_result.consulted = Min(FailingTypes)

\* the first failing type is not the first of the list, and a later type
\* fails with another diagnostic
C12_Witness ==
    /\ ItemChecked
    /\ ~item_result.ok
    /\ Min(FailingTypes) > 1
    /\ \E k \in FailingTypes :
        check_type(all_items, all_involved_types(cpp_item)[k]).err
            # item_result.err

(***************************************************************************)
(* Properties of the batch pass.                                           *)
(***************************************************************************)
RECURSIVE Ascending(_)
\* the positions of a set in ascending order
Ascending(S) ==
    IF S = {} THEN <<>> ELSE <<Min(S)>> \o Ascending(S \ {Min(S)})

IsPending(i) == all_items[i].rust_item = <<>>

Resolvable(i) ==
    \A k \in 1..Len(ItemLeaves(all_items[i].cpp_data)) :
        Met(all_items, ItemLeaves(all_items[i].cpp_data)[k])

PendingResolvable(i) == IsPending(i) /\ Resolvable(i)
PendingUnresolvable(i) == IsPending(i) /\ ~Resolvable(i)

InSeq(x, q) == \E k \in 1..Len(q) : q[k] = x

\* C13: the batch pass always runs to completion: it never stops at an
\* item, it returns Ok, it has handed off each resolvable pending item and
\* logged exactly one line "skipping item: <description>: <reason>" for each
\* unresolvable pending item, in order.
C13_BestEffort ==
    /\ run_status # "panic"
    /\ run_status = "Ok" =>
        /\ handed_off = Ascending({i \in 1..Len(all_items) : PendingResolvable(i)})
        /\ logged = Ascending({i \in 1..Len(all_items) : PendingUnresolvable(i)})
        /\ Len(log) = Len(logged)
        /\ \A k \in 1..Len(log) :
            /\ log[k][1] = "skipping item: "
            /\ log[k][2] = all_items[logged[k]].cpp_data
            /\ log[k][3] = ": "

\* C16: an item that already has a binding is skipped without a
\* resolvability check, without a diagnostic and without hand-off, whether
\* or not its types are resolvable; the pass leaves the registry and the
\* binding state of every item unchanged, and every line it logs is for a
\* pending item it leaves pending.
C16_OnlyPending ==
    /\ all_items = initial_items
    /\ \A i \in 1..Len(all_items) :
        ~IsPending(i) =>
            /\ ~InSeq(i, checked)
            /\ ~InSeq(i, logged)
            /\ ~InSeq(i, handed_off)
    /\ Len(log) = Len(logged)
    /\ \A k \in 1..Len(logged) :
        /\ IsPending(logged[k])
        /\ InSeq(logged[k], checked)
        /\ log[k][2] = all_items[logged[k]].cpp_data

\* the pass returned after it went past an item with a binding and
\* resolvable types, an item with a binding and unresolvable types, and a
\* pending item it logged a line for
C16_Witness ==
    /\ run_status = "Ok"
    /\ \E i, j \in 1..Len(all_items) :
        /\ ~IsPending(i) /\ Resolvable(i)
        /\ ~IsPending(j) /\ ~Resolvable(j)
    /\ Len(log) > 0

(***************************************************************************)
(* Properties of has_same_source.                                          *)
(***************************************************************************)
Compared == same_ab # <<>>
ComparedThird == item_c # <<>>

A == Unwrap(item_a)
B == Unwrap(item_b)

\* C14: for two items of one variant has_same_source is true exactly when
\* their provenance is equal (same sub-variant, same index or name), in
\* both orders, whatever their paths, docs and visibility; an item has the
\* same source as itself.
C14_SameVariant ==
    Compared =>
        /\ Unwrap(same_aa)
        /\ A.variant = B.variant =>
            /\ Unwrap(same_ab) <=> A.prov = B.prov
            /\ Unwrap(same_ba) <=> A.prov = B.prov

\* two items of one variant and one provenance that differ in path, doc and
\* visibility were compared
C14_Witness ==
    /\ Compared
    /\ A.variant = B.variant
    /\ A.prov = B.prov
    /\ A.path # B.path
    /\ A.is_public # B.is_public
    /\ A.doc # B.doc
    /\ Unwrap(same_ab)

\* a TraitImpl of kind Normal and a Function of kind FfiWrapper with one
\* ffi_item_index, in either order
CrossMatch(x, y) ==
    \E t, f \in {x, y} :
        /\ t.variant = "TraitImpl"
        /\ t.prov.kind = "Normal"
        /\ f.variant = "Function"
        /\ f.prov.tag = "FfiWrapper"
        /\ f.prov.ffi_item_index = t.prov.ffi_item_index

\* C15: for two items of different variants has_same_source is true exactly
\* for a Normal TraitImpl and an FfiWrapper Function with the same
\* ffi_item_index, in either argument order; every other pair gives false.
C15_CrossVariant ==
    (Compared /\ A.variant # B.variant) =>
        /\ Unwrap(same_ab) <=> CrossMatch(A, B)
        /\ Unwrap(same_ba) <=> CrossMatch(A, B)

\* a Normal TraitImpl was compared with the FfiWrapper Function of its index
C15_Witness ==
    /\ Compared
    /\ A.variant = "TraitImpl"
    /\ B.variant = "Function"
    /\ Unwrap(same_ab)
    /\ Unwrap(same_ba)

\* C19: has_same_source is an equivalence relation: every item matches
\* itself, a matches b exactly when b matches a, and if a matches b and b
\* matches c then a matches c.
C19_Equivalence ==
    /\ Compared =>
        /\ Unwrap(same_aa)
        /\ Unwrap(same_ab) <=> Unwrap(same_ba)
    /\ ComparedThird =>
        ((Unwrap(same_ab) /\ Unwrap(same_bc)) => Unwrap(same_ac))

\* two Normal TraitImpls that differ in path were each compared with the
\* FfiWrapper Function of their index, and with each other
C19_Witness ==
    /\ ComparedThird
    /\ A.variant = "TraitImpl"
    /\ B.variant = "Function"
    /\ Unwrap(item_c).variant = "TraitImpl"
    /\ A.path # Unwrap(item_c).path
    /\ Unwrap(same_ab)
    /\ Unwrap(same_bc)
    /\ Unwrap(same_ac)

====
